---- MODULE Spec2Model ----
(***************************************************************************)
(* ExO - Expert Opinion Webapp (src/main.py).                              *)
(*                                                                         *)
(* The FastAPI handlers are "async def" bodies without any await, so each  *)
(* handler runs to completion on the event loop before another one starts. *)
(* The only internal position a request can be observed at is the          *)
(* draw-until-unused loop of get_two_unique_images, kept here as pc.       *)
(***************************************************************************)
EXTENDS Integers, Sequences, FiniteSets, TLC

\* ------------------------------------------------------------------ bounds
\* Last clock tick the model lets time reach.
MaxClock == 2
\* Clock ticks per second; the archive timestamp has second resolution.
TicksPerSecond == 2
\* Total number of /select requests in one run.
MaxAppends == 2

\* -------------------------------------------------------------- file names
\* File names that can be in the images folder.
ImageNames == {"A.tif", "B.tiff", "C.TIF"}
\* A larger folder, for the runs of the sampler alone.
SamplerNames == ImageNames \cup {"D.tif"}
\* The (selected, other) forms a /select request can carry: a pair of pool
\* images, and identifiers that are no file of the pool at all.
Forms == {<<"A.tif", "B.tiff">>, <<"ghost.tif", "ghost.tif">>}
\* The file lists an upload request can carry.
Batches ==
    {<<"A.tif">>, <<"B.tiff">>, <<"C.TIF">>, <<"notes.txt">>,
     <<"B.tiff", "C.TIF">>, <<"A.tif", "notes.txt", "C.TIF">>}

\* The same with the fourth image, for the runs on the larger folder.
WideBatches == Batches \cup {<<"D.tif">>}

\* Position of a file name in Python's string order (sorted()).
Rank(name) ==
    CASE name = "A.tif" -> 1
      [] name = "B.tiff" -> 2
      [] name = "C.TIF" -> 3
      [] name = "D.tif" -> 4
      [] name = "notes.txt" -> 5

\* file.filename.lower()
Lower(name) ==
    CASE name = "A.tif" -> "a.tif"
      [] name = "B.tiff" -> "b.tiff"
      [] name = "C.TIF" -> "c.tif"
      [] name = "D.tif" -> "d.tif"
      [] name = "notes.txt" -> "notes.txt"

\* str.endswith((".tif", ".tiff")) on the names Lower produces.
EndsWithTiff(lowered) == lowered \in {"a.tif", "b.tiff", "c.tif", "d.tif"}

\* --------------------------------------------------------------- the state
VARIABLES
    pool,               \* os.listdir(IMAGES_FOLDER): the files of the images folder
    used_combinations,  \* set of sorted 2-tuples already presented
    latest_archive,     \* name of the last archive written, <<>> for None
    csv,                \* rows of CSV_FILE (output/selections.csv)
    archives,           \* archive file name -> rows of that file
    now,                \* the clock, in ticks
    pc,                 \* "idle", or "loop" inside get_two_unique_images
    images,             \* the listing get_two_unique_images took (local)
    response,           \* the response of the last completed request
    lastEvent,          \* history: the last completed request, and the sampler
                        \*   guard it found (index and force_finish)
    appended,           \* history: every record /select appended, in order
    sessionRecords,     \* history: records appended since the last reset
    successes           \* history: successful sampler calls since UsedSet was empty

vars == <<pool, used_combinations, latest_archive, csv, archives, now, pc,
          images, response, lastEvent, appended, sessionRecords,
          successes>>

\* The header row pd.DataFrame(columns=["selected", "other"]).to_csv writes.
Header == <<"selected", "other">>

\* datetime.datetime.now().strftime("%Y_%m_%d_%H%M%S"): the sub-second part is dropped.
strftime(t) == t \div TicksPerSecond

\* os.path.join("output", f"selection_{timestamp}.csv")
archive_filename(timestamp) == <<"selection", timestamp>>

\* None
None == <<>>

\* Mutant: the pair is kept in the order drawn.
sorted_AsDrawn(img1, img2) == <<img1, img2>>

\* tuple(sorted([img1, img2]))
sorted(img1, img2) ==
    IF Rank(img1) <= Rank(img2) THEN <<img1, img2>> ELSE <<img2, img1>>

\* Mutant: n * (n + 1) instead of n * (n - 1).
total_possible_Plus(imgs) ==
    (Cardinality(imgs) * (Cardinality(imgs) + 1)) \div 2

\* (len(images) * (len(images) - 1)) // 2
total_possible(imgs) ==
    (Cardinality(imgs) * (Cardinality(imgs) - 1)) \div 2

\* Mutant: ">" instead of ">=".
Exhausted_Strict(imgs) == Cardinality(used_combinations) > total_possible(imgs)

\* len(used_combinations) >= total_possible
Exhausted(imgs) == Cardinality(used_combinations) >= total_possible(imgs)

\* open(archive_filename, 'w'); dst.write(src.read())
WriteFile(files, name, rows) ==
    [f \in (DOMAIN files) \cup {name} |-> IF f = name THEN rows ELSE files[f]]

\* ------------------------------------------------------------------- Init
\* A value of the history variable lastEvent.
Event(op, exhausted) == [op |-> op, exhausted |-> exhausted]

\* Module initialisation, lines 43-53, of a fresh deployment: the images
\* folder holds any files, CSV_FILE is absent and is created header-only.

InitFrom(folders) ==
    /\ pool \in folders
    /\ used_combinations = {}
    /\ latest_archive = None
    /\ csv = <<Header>>
    /\ archives = <<>>
    /\ now = 0
    /\ pc = "idle"
    /\ images = {}
    /\ response = <<>>
    /\ lastEvent = Event("start", FALSE)
    /\ appended = <<>>
    /\ sessionRecords = <<>>
    /\ successes = 0

Init == InitFrom(SUBSET ImageNames)

\* ------------------------------------------------- get_two_unique_images
\* Mutant: the membership test is dropped, any drawn pair is taken.
NotInUsed_Always(combination) == TRUE

\* if combination not in used_combinations
NotInUsed(combination) == combination \notin used_combinations

\* One pass of the "while True" loop: random.sample(images, 2), then either
\* add the sorted pair and return (img1, img2), or draw again.
get_two_unique_images_loop ==
    /\ pc = "loop"
    /\ \E img1 \in images : \E img2 \in images \ {img1} :
         LET combination == sorted(img1, img2) IN
         IF NotInUsed(combination)
         THEN /\ used_combinations' = used_combinations \cup {combination}
              /\ pc' = "idle"
              /\ images' = {}
              /\ response' = <<"index.html", img1, img2>>
              /\ lastEvent' = Event("index_pair", FALSE)
              /\ successes' = successes + 1
              /\ UNCHANGED <<pool, latest_archive, csv, archives, now,
                             appended, sessionRecords>>
         ELSE UNCHANGED vars

\* Lines 57-61 when the guard holds: get_two_unique_images returns
\* (None, None) and has changed nothing.  (Inside GET / this return is the
\* first half of index_finished.)
get_two_unique_images_none ==
    /\ pc = "idle"
    /\ Exhausted(pool)
    /\ response' = <<"None", "None">>
    /\ lastEvent' = Event("sampler_none", TRUE)
    /\ UNCHANGED <<pool, used_combinations, latest_archive, csv, archives, now,
                   pc, images, appended, sessionRecords, successes>>

\* ------------------------------------------------------------ GET / (index)
\* Mutant: the exhaustion branch archives but leaves CSV_FILE as it is.
IndexArchive_NoReset ==
    LET name == archive_filename(strftime(now))
    IN  [latest_archive |-> name,
         archives |-> WriteFile(archives, name, csv),
         csv |-> csv,
         used_combinations |-> {}]

\* Mutant: without "global latest_archive" the module variable is not set.
IndexArchive_StalePointer ==
    LET name == archive_filename(strftime(now))
    IN  [latest_archive |-> latest_archive,
         archives |-> WriteFile(archives, name, csv),
         csv |-> <<>>,
         used_combinations |-> {}]

\* Lines 76-89: what the exhaustion branch of index leaves behind.
IndexArchive ==
    LET timestamp == strftime(now)
        name == archive_filename(timestamp)
    IN  [latest_archive |-> name,
         archives |-> WriteFile(archives, name, csv),
         csv |-> <<>>,
         used_combinations |-> {}]

\* get_two_unique_images returned (None, None): archive, reset, finished.html.
index_finished ==
    /\ pc = "idle"
    /\ Exhausted(pool)
    /\ latest_archive' = IndexArchive.latest_archive
    /\ archives' = IndexArchive.archives
    /\ csv' = IndexArchive.csv
    /\ used_combinations' = IndexArchive.used_combinations
    /\ response' = <<"finished.html">>
    /\ lastEvent' = Event("index_finished", TRUE)
    /\ sessionRecords' = <<>>
    /\ successes' = 0
    /\ UNCHANGED <<pool, now, pc, images, appended>>

\* get_two_unique_images passed its guard: the handler is in the draw loop.
index_sample ==
    /\ pc = "idle"
    /\ ~Exhausted(pool)
    /\ pc' = "loop"
    /\ images' = pool
    /\ UNCHANGED <<pool, used_combinations, latest_archive, csv, archives, now,
                   response, lastEvent, appended, sessionRecords,
                   successes>>

index == index_finished \/ index_sample

\* ------------------------------------------------------------ POST /select
\* Mutant: the form is accepted only when both identifiers are pool images.
select_image_Validates(selected, other) ==
    /\ pc = "idle"
    /\ {selected, other} \subseteq pool
    /\ Len(appended) < MaxAppends
    /\ csv' = Append(csv, <<selected, other>>)
    /\ response' = <<"303", "/">>
    /\ lastEvent' = Event("select", FALSE)
    /\ appended' = Append(appended, <<selected, other>>)
    /\ sessionRecords' = Append(sessionRecords, <<selected, other>>)
    /\ UNCHANGED <<pool, used_combinations, latest_archive, archives, now, pc,
                   images, successes>>

\* Mutant: the new row is written at the head of the file.
select_image_Prepends(selected, other) ==
    /\ pc = "idle"
    /\ Len(appended) < MaxAppends
    /\ csv' = <<<<selected, other>>>> \o csv
    /\ response' = <<"303", "/">>
    /\ lastEvent' = Event("select", FALSE)
    /\ appended' = Append(appended, <<selected, other>>)
    /\ sessionRecords' = Append(sessionRecords, <<selected, other>>)
    /\ UNCHANGED <<pool, used_combinations, latest_archive, archives, now, pc,
                   images, successes>>

select_image(selected, other) ==
    /\ pc = "idle"
    /\ Len(appended) < MaxAppends
    /\ csv' = Append(csv, <<selected, other>>)
    /\ response' = <<"303", "/">>
    /\ lastEvent' = Event("select", FALSE)
    /\ appended' = Append(appended, <<selected, other>>)
    /\ sessionRecords' = Append(sessionRecords, <<selected, other>>)
    /\ UNCHANGED <<pool, used_combinations, latest_archive, archives, now, pc,
                   images, successes>>

\* -------------------------------------------------------- GET /download_csv
download_csv ==
    /\ pc = "idle"
    /\ response' = IF latest_archive # None /\ latest_archive \in DOMAIN archives
                   THEN <<"file", latest_archive>>
                   ELSE <<"404">>
    /\ lastEvent' = Event("download", FALSE)
    /\ UNCHANGED <<pool, used_combinations, latest_archive, csv, archives, now,
                   pc, images, appended, sessionRecords, successes>>

\* ------------------------------------------------------------ POST /upload
\* Mutant: endswith(".tif") alone, ".tiff" is forgotten.
IsTiff_OnlyTif(filename) == Lower(filename) \in {"a.tif", "c.tif", "d.tif"}

IsTiff(filename) == EndsWithTiff(Lower(filename))

\* Index of the first file of the batch the loop rejects, Len + 1 if none.
FirstRejected(files) ==
    LET bad == {i \in 1..Len(files) : ~IsTiff(files[i])}
    IN  IF bad = {} THEN Len(files) + 1
        ELSE CHOOSE i \in bad : \A j \in bad : i <= j

\* The files stored before the loop returns.
Stored(files) == {files[i] : i \in 1..(FirstRejected(files) - 1)}

upload_image(files) ==
    /\ pc = "idle"
    /\ pool' = pool \cup Stored(files)
    /\ response' = IF FirstRejected(files) <= Len(files)
                   THEN <<"400", files[FirstRejected(files)]>>
                   ELSE <<"303", "/upload">>
    /\ lastEvent' = Event("upload", FALSE)
    /\ UNCHANGED <<used_combinations, latest_archive, csv, archives, now, pc,
                   images, appended, sessionRecords, successes>>

\* ----------------------------------------------------- POST /delete_images
\* os.remove of every listed file; a failing os.remove (a storage error) is
\* not modelled.
\* Mutant: deleting the images also forgets the pairs presented.
delete_all_images_ClearsUsed ==
    /\ pc = "idle"
    /\ pool' = {}
    /\ used_combinations' = {}
    /\ response' = <<"303", "/upload">>
    /\ lastEvent' = Event("delete", FALSE)
    /\ UNCHANGED <<latest_archive, csv, archives, now, pc,
                   images, appended, sessionRecords, successes>>

delete_all_images ==
    /\ pc = "idle"
    /\ pool' = {}
    /\ response' = <<"303", "/upload">>
    /\ lastEvent' = Event("delete", FALSE)
    /\ UNCHANGED <<used_combinations, latest_archive, csv, archives, now, pc,
                   images, appended, sessionRecords, successes>>

\* ------------------------------------------------------ POST /force_finish
\* Mutant: force_finish without used_combinations.clear().
ForceFinishArchive_KeepsUsed ==
    LET name == archive_filename(strftime(now))
    IN  [latest_archive |-> name,
         archives |-> WriteFile(archives, name, csv),
         csv |-> <<>>,
         used_combinations |-> used_combinations]

\* Mutant: force_finish archives a header-only file instead of the log.
ForceFinishArchive_DropsLog ==
    LET name == archive_filename(strftime(now))
    IN  [latest_archive |-> name,
         archives |-> WriteFile(archives, name, <<Header>>),
         csv |-> <<>>,
         used_combinations |-> {}]

\* Lines 153-163: what force_finish leaves behind.
ForceFinishArchive ==
    LET timestamp == strftime(now)
        name == archive_filename(timestamp)
    IN  [latest_archive |-> name,
         archives |-> WriteFile(archives, name, csv),
         csv |-> <<>>,
         used_combinations |-> {}]

force_finish ==
    /\ pc = "idle"
    /\ latest_archive' = ForceFinishArchive.latest_archive
    /\ archives' = ForceFinishArchive.archives
    /\ csv' = ForceFinishArchive.csv
    /\ used_combinations' = ForceFinishArchive.used_combinations
    /\ response' = <<"finished.html">>
    /\ lastEvent' = Event("force_finish", Exhausted(pool))
    /\ sessionRecords' = <<>>
    /\ successes' = 0
    /\ UNCHANGED <<pool, now, pc, images, appended>>

\* ---------------------------------------------------------------- the clock
Tick ==
    /\ now < MaxClock
    /\ now' = now + 1
    /\ UNCHANGED <<pool, used_combinations, latest_archive, csv, archives, pc,
                   images, response, lastEvent, appended,
                   sessionRecords, successes>>

Next ==
    \/ index_finished
    \/ index_sample
    \/ get_two_unique_images_loop
    \/ \E form \in Forms : select_image(form[1], form[2])
    \/ download_csv
    \/ \E files \in Batches : upload_image(files)
    \/ delete_all_images
    \/ force_finish
    \/ Tick

Spec == Init /\ [][Next]_vars

\* The sampler alone on a fixed pool of at least two images: only GET /
\* requests arrive (and time passes), so the images folder never changes.
InitSampler == InitFrom({S \in SUBSET SamplerNames : Cardinality(S) >= 2})

NextSampler ==
    \/ index_finished
    \/ index_sample
    \/ get_two_unique_images_loop
    \/ Tick

SpecSampler == InitSampler /\ [][NextSampler]_vars

\* The sampler on a folder of up to four images that uploads and deletions
\* change between requests, so that UsedSet can hold pairs of images since
\* removed while the guard passes.  random.sample draws uniformly: a call
\* that stays in the loop draws every pair of its listing again and again, so
\* a draw of an unused pair, while there is one, is eventually made.
InitLoop == InitFrom(SUBSET SamplerNames)

NextLoop ==
    \/ index_finished
    \/ index_sample
    \/ get_two_unique_images_loop
    \/ \E files \in WideBatches : upload_image(files)
    \/ delete_all_images
    \/ force_finish

SpecLoop == InitLoop /\ [][NextLoop]_vars /\ WF_vars(get_two_unique_images_loop)

\* get_two_unique_images called on its own, as index calls it, on a folder of
\* up to four images that uploads and deletions change between the calls;
\* /force_finish clears UsedSet.
NextCalls ==
    \/ get_two_unique_images_none
    \/ index_sample
    \/ get_two_unique_images_loop
    \/ \E files \in WideBatches : upload_image(files)
    \/ delete_all_images
    \/ force_finish

SpecCalls == InitLoop /\ [][NextCalls]_vars

\* ------------------------------------------------------------- properties
\* The unordered pairs of distinct members of S.
UnorderedPairs(S) == {p \in SUBSET S : Cardinality(p) = 2}

\* The unordered pairs UsedSet holds.
UsedPairs == {{c[1], c[2]} : c \in used_combinations}

\* The record rows of a log file (every row but the header row).
RecordsOf(rows) == SelectSeq(rows, LAMBDA r : r # Header)

\* How many times record rec occurs in rows.
Count(rec, rows) == Len(SelectSeq(rows, LAMBDA r : r = rec))

RECURSIVE CountInFiles(_, _, _)
CountInFiles(rec, files, names) ==
    IF names = {} THEN 0
    ELSE LET f == CHOOSE x \in names : TRUE
         IN  Count(rec, files[f]) + CountInFiles(rec, files, names \ {f})

\* The requests that archive and reset.
ArchiveOps == {"index_finished", "force_finish"}

\* C1: on a fixed pool of n >= 2 images, starting from an empty UsedSet, the
\* k successful sampler calls of a session issued k different pairs of the
\* pool; a call reports exhaustion exactly when C(n,2) calls have succeeded,
\* and by then every unordered pair of the pool has been issued.
C1_NoRepeatUntilExhaustion ==
    /\ successes = Cardinality(UsedPairs)
    /\ UsedPairs \subseteq UnorderedPairs(pool)
    /\ pc = "idle" =>
         /\ (ENABLED index_finished) <=>
                successes = Cardinality(UnorderedPairs(pool))
         /\ (ENABLED index_sample) <=>
                successes < Cardinality(UnorderedPairs(pool))
         /\ (ENABLED index_finished) => UsedPairs = UnorderedPairs(pool)

\* Pool {A, B, C}: three calls have succeeded and the fourth reports exhaustion.
C1_Witness ==
    /\ pool = ImageNames
    /\ successes = 3
    /\ pc = "idle"
    /\ ENABLED index_finished

\* C2: every record /select appended is found exactly once in the ActiveLog
\* and the archived logs together.
C2_NoAppendLostOrDuplicated ==
    \A rec \in Forms :
        Count(rec, appended) =
            Count(rec, csv) + CountInFiles(rec, archives, DOMAIN archives)

\* C3: after an archive-and-reset the ActiveLog is header-only, so that with
\* one record appended since then it reads as the header row selected,other
\* followed by exactly that record.
C3_HeaderPreservedAfterReset ==
    (latest_archive # None /\ lastEvent.op = "select" /\ Len(sessionRecords) = 1)
        => csv = <<Header>> \o sessionRecords

\* C4: two archive-and-reset operations in succession, nothing between them,
\* name two different archives, whatever the clock reads at the two calls.
C4_SuccessiveArchivesDistinct ==
    [][(lastEvent.op \in ArchiveOps /\ (index_finished \/ force_finish))
          => latest_archive' # latest_archive]_vars

\* C5: an archive file, once written, keeps its contents forever.
C5_ArchiveImmutable ==
    [][\A f \in DOMAIN archives :
          f \in DOMAIN archives' /\ archives'[f] = archives[f]]_vars

\* C6: UsedSet never holds more pairs than the current pool has, C(n,2).
C6_UsedWithinTotal ==
    Cardinality(used_combinations) <= Cardinality(UnorderedPairs(pool))

\* C7: with fewer than two images in the pool a GET / request never enters
\* the draw loop and adds nothing to UsedSet; it answers with the completion
\* page.
C7_SmallPoolExhausted ==
    [][(Cardinality(pool) < 2 /\ index)
          => /\ pc' = "idle"
             /\ used_combinations' \subseteq used_combinations
             /\ response' = <<"finished.html">>]_vars

\* A GET / on a pool of fewer than two images has answered "finished".
C7_Witness ==
    /\ lastEvent.op = "index_finished"
    /\ Cardinality(pool) < 2

\* C8: a GET / that finds the sampler exhausted writes the whole ActiveLog to
\* the archive it names, leaves the ActiveLog without records, clears UsedSet
\* and answers with the completion page; a GET / that gets a pair answers
\* with that pair, adds it to UsedSet and touches neither the log, the
\* archives nor the archive pointer.
C8_IndexBranches ==
    [][/\ (index /\ Exhausted(pool)) =>
            /\ latest_archive' \in DOMAIN archives'
            /\ archives'[latest_archive'] = csv
            /\ RecordsOf(csv') = <<>>
            /\ used_combinations' = {}
            /\ response' = <<"finished.html">>
            /\ pc' = "idle"
       /\ (index /\ ~Exhausted(pool)) =>
            /\ pc' = "loop"
            /\ UNCHANGED <<csv, archives, latest_archive, used_combinations>>
       /\ get_two_unique_images_loop =>
            /\ UNCHANGED <<csv, archives, latest_archive>>
            /\ response'[1] = "index.html"
            /\ {response'[2], response'[3]} \in UnorderedPairs(pool)
            /\ {response'[2], response'[3]} \notin UsedPairs
            /\ UsedPairs' = UsedPairs \cup {{response'[2], response'[3]}}
      ]_vars

\* An exhausted GET / has archived a log that held a record.
C8_Witness ==
    /\ lastEvent.op = "index_finished"
    /\ latest_archive \in DOMAIN archives
    /\ RecordsOf(archives[latest_archive]) # <<>>
    /\ RecordsOf(csv) = <<>>
    /\ used_combinations = {}

\* C9: right after an archive event, a GET / on a pool of at least two
\* images enters the sampler's draw loop instead of reporting completion,
\* the loop has an unused pair to find, and what it returns is a pair.
C9_FinishedNotSticky ==
    /\ [][(lastEvent.op \in ArchiveOps /\ Cardinality(pool) >= 2 /\ index)
            => (pc' = "loop" /\ lastEvent' = lastEvent)]_vars
    /\ [](pc = "loop" => UnorderedPairs(images) \ UsedPairs # {})
    /\ [][(pc = "loop" /\ pc' = "idle")
            => (response'[1] = "index.html" /\ lastEvent'.op = "index_pair")]_vars

\* The GET / that follows an archive event is in the draw loop.
C9_Witness ==
    /\ pc = "loop"
    /\ lastEvent.op \in ArchiveOps
    /\ Cardinality(pool) >= 2

\* C10: a /force_finish leaves the ActiveLog, the archives, the archive
\* pointer and UsedSet exactly as the exhaustion branch of GET / would leave
\* them from the same state, with UsedSet empty, also when unused pairs
\* remain.
C10_ForceFinishSameAsExhaustion ==
    [][force_finish =>
          /\ latest_archive' = IndexArchive.latest_archive
          /\ archives' = IndexArchive.archives
          /\ csv' = IndexArchive.csv
          /\ used_combinations' = IndexArchive.used_combinations
          /\ used_combinations' = {}
          /\ response' = <<"finished.html">>]_vars

\* A /force_finish has archived a log with a record while pairs were unused.
C10_Witness ==
    /\ lastEvent = Event("force_finish", FALSE)
    /\ latest_archive \in DOMAIN archives
    /\ RecordsOf(archives[latest_archive]) # <<>>

\* C11: a /force_finish with no record appended since the last reset, or
\* since startup, writes an archive holding exactly the header row
\* selected,other and leaves UsedSet empty.
C11_EmptyForceFinishHeaderOnly ==
    [][(force_finish /\ sessionRecords = <<>>)
          => /\ latest_archive' \in DOMAIN archives'
             /\ archives'[latest_archive'] = <<Header>>
             /\ used_combinations' = {}]_vars

C13_ExhaustedOnlyWhenAllIssued ==
    [][index_finished => UnorderedPairs(pool) \subseteq UsedPairs]_vars

\* C14: whenever the exhaustion guard passes, some unordered pair of the
\* current pool is not in UsedSet, stale pairs or not, so that under fair
\* draws a call that entered the draw loop returns.
C14_LoopTerminates ==
    /\ [](~Exhausted(pool) => UnorderedPairs(pool) \ UsedPairs # {})
    /\ (pc = "loop") ~> (pc = "idle")

\* The guard passed and the call is in the loop while UsedSet holds a stale
\* pair, one with an image that is no longer in the pool.
C14_Witness ==
    /\ pc = "loop"
    /\ UsedPairs \ UnorderedPairs(images) # {}

\* C15: a sampler call that succeeds returns two different members of the
\* listing it took, whose pair was not in UsedSet, and adds exactly that pair
\* to UsedSet; a call that reports exhaustion leaves UsedSet as it was.
C15_SamplerFrame ==
    [][/\ get_two_unique_images_loop =>
            /\ response'[1] = "index.html"
            /\ response'[2] # response'[3]
            /\ {response'[2], response'[3]} \subseteq images
            /\ {response'[2], response'[3]} \notin UsedPairs
            /\ used_combinations \subseteq used_combinations'
            /\ Cardinality(used_combinations') =
                  Cardinality(used_combinations) + 1
            /\ UsedPairs' = UsedPairs \cup {{response'[2], response'[3]}}
       /\ get_two_unique_images_none =>
            /\ response' = <<"None", "None">>
            /\ used_combinations' = used_combinations
      ]_vars

\* A call has returned a pair in the order drawn, not the sorted one, and
\* UsedSet already held another pair.
C15_Witness ==
    /\ lastEvent.op = "index_pair"
    /\ Rank(response[2]) > Rank(response[3])
    /\ sorted(response[2], response[3]) \in used_combinations
    /\ Cardinality(used_combinations) >= 2

\* C16: a /select request is accepted with any two identifiers, issued pair
\* or not, pool images or not; it adds exactly the one row (selected, other)
\* at the end of the ActiveLog and leaves UsedSet, the archives and the
\* archive pointer as they were.
C16_SelectFrame ==
    /\ []((pc = "idle" /\ Len(appended) < MaxAppends)
            => \A form \in Forms : ENABLED select_image(form[1], form[2]))
    /\ [][\A form \in Forms : select_image(form[1], form[2]) =>
            /\ csv' = csv \o <<form>>
            /\ Len(csv') = Len(csv) + 1
            /\ UNCHANGED <<used_combinations, archives, latest_archive, pool>>
            /\ response' = <<"303", "/">>
         ]_vars

\* A /select with identifiers that are no pool image and no issued pair was
\* recorded, while UsedSet and an archive existed.
C16_Witness ==
    /\ lastEvent.op = "select"
    /\ csv # <<>>
    /\ csv[Len(csv)] = <<"ghost.tif", "ghost.tif">>
    /\ used_combinations # {}
    /\ latest_archive # None

\* C17: latest_archive is None exactly as long as no archive has been
\* written, and /download_csv then answers 404; every archive event makes it
\* the name of the archive that event wrote, holding the ActiveLog as it was
\* at that event, and no other request changes the pointer or that file;
\* /download_csv then serves the file it names.
C17_LatestArchive ==
    /\ [](latest_archive = None <=> DOMAIN archives = {})
    /\ [][(index_finished \/ force_finish) =>
            /\ latest_archive' \in DOMAIN archives'
            /\ archives'[latest_archive'] = csv
         ]_vars
    /\ [][~(index_finished \/ force_finish) =>
            /\ latest_archive' = latest_archive
            /\ latest_archive # None =>
                  archives'[latest_archive] = archives[latest_archive]
         ]_vars
    /\ [][download_csv =>
            IF DOMAIN archives = {}
            THEN response' = <<"404">>
            ELSE response'[1] = "file" /\ response'[2] = latest_archive
         ]_vars

\* After two archive events under different names, /download_csv has served
\* the later one, which holds a record.
C17_Witness ==
    /\ lastEvent.op = "download"
    /\ Cardinality(DOMAIN archives) = 2
    /\ response[1] = "file"
    /\ response[2] = latest_archive
    /\ latest_archive = archive_filename(1)
    /\ RecordsOf(archives[latest_archive]) # <<>>

\* The upload names that end in .tif or .tiff, whatever the case.
TiffNames == {"A.tif", "B.tiff", "C.TIF", "D.tif"}

\* The items of a batch before its first item that is no TIFF.
RECURSIVE TiffPrefix(_)
TiffPrefix(files) ==
    IF files = <<>> \/ Head(files) \notin TiffNames
    THEN <<>>
    ELSE <<Head(files)>> \o TiffPrefix(Tail(files))

\* C18: an upload stores the items of its batch in order up to the first one
\* that is no TIFF; that item is answered with an error and neither it nor
\* any later item is stored, the earlier ones stay; a batch of TIFFs only is
\* stored whole.
C18_UploadStopsAtFirstNonTiff ==
    [][\A files \in WideBatches : upload_image(files) =>
          LET kept == TiffPrefix(files) IN
          /\ pool' = pool \cup {kept[i] : i \in 1..Len(kept)}
          /\ IF Len(kept) < Len(files)
             THEN response' = <<"400", files[Len(kept) + 1]>>
             ELSE response' = <<"303", "/upload">>
      ]_vars

\* An upload was answered with the error for notes.txt; A.tif, sent before
\* it, is in the folder and C.TIF, sent after it, is not.
C18_Witness ==
    /\ lastEvent.op = "upload"
    /\ response = <<"400", "notes.txt">>
    /\ "A.tif" \in pool
    /\ "C.TIF" \notin pool

\* C19: only the archive events empty UsedSet: every other step leaves it as
\* it was, but for a sampler call that adds the pair it returns; so a pair
\* in UsedSet is never returned again before the next archive event, also
\* after its images were deleted and uploaded again.
C19_UsedClearedOnlyByArchive ==
    /\ [][(index_finished \/ force_finish) => used_combinations' = {}]_vars
    /\ [][~(index_finished \/ force_finish \/ get_two_unique_images_loop)
            => used_combinations' = used_combinations]_vars
    /\ [][(get_two_unique_images_loop /\ pc' = "idle") =>
            /\ used_combinations \subseteq used_combinations'
            /\ response'[1] = "index.html"
            /\ {response'[2], response'[3]} \notin UsedPairs]_vars

\* A.tif and B.tiff were presented together, all images were deleted and
\* B.tiff was uploaded again: UsedSet still holds the pair.
C19_Witness ==
    /\ lastEvent.op = "upload"
    /\ pool = {"B.tiff"}
    /\ <<"A.tif", "B.tiff">> \in used_combinations

====
